---- MODULE Spec2Model ----
(***************************************************************************)
(* The PyTables query compiler of pandas/computation/pytables.py: an Expr  *)
(* holds a typed AST (terms) and evaluate() prunes it twice, once per      *)
(* role, into a pushdown condition and a residual filter.                  *)
(*                                                                         *)
(* Python values are records tagged by their class in the field cls, so    *)
(* that None, str, int, list and the node classes stay distinguishable.    *)
(* The queryables of the model hold an integer column, a string column, a  *)
(* category column and a column that is known but not indexed; the date,   *)
(* timedelta, float and bool kinds are not among the model's queryables.   *)
(***************************************************************************)
EXTENDS Integers, Sequences, FiniteSets, TLC

VARIABLES expr, terms, encoding, condition, filter, status, ret, prev, calls,
          inverts, formatted

vars == <<expr, terms, encoding, condition, filter, status, ret, prev, calls,
          inverts, formatted>>

\* ------------------------------------------------------------------ bounds

\* longest right-hand value list of a comparison
MaxValues == 33
\* evaluate() calls on one Expr
MaxCalls == 2
\* invert() calls on the filter node an evaluate() returned
MaxInverts == 2

\* ------------------------------------------------------- Python values

None == [cls |-> "NoneType"]
int(i) == [cls |-> "int", val |-> i]
str(s) == [cls |-> "str", val |-> s]
bytes(s, enc) == [cls |-> "bytes", val |-> s, encoding |-> enc]
list(q) == [cls |-> "list", val |-> q]
Raise(exc, msg) == [cls |-> "Raise", exc |-> exc, msg |-> msg]

IsRaise(v) == v.cls = "Raise"

\* the strings of the model in Python's str order
StrOrder == <<"bar", "missing", "s", "w", "x", "y", "ya", "z", "zz">>

StrRank(s) == CHOOSE i \in 1..Len(StrOrder) : StrOrder[i] = s

\* Python's < on two values of the model: ints by value, strs by str order
Less(a, b) == IF a.cls = "int" THEN a.val < b.val ELSE StrRank(a.val) < StrRank(b.val)

\* the strings that float() parses, with the int they denote
NumericStr == [i \in 0..MaxValues |-> ToString(i)]

IsNumericStr(s) == \E i \in DOMAIN NumericStr : NumericStr[i] = s

StrToInt(s) == CHOOSE i \in DOMAIN NumericStr : NumericStr[i] = s

\* ----------------------------------------------------------- queryables

Col(k, m, md) == [cls |-> "Col", kind |-> k, meta |-> m, metadata |-> md]

queryables ==
    [A      |-> Col(str("integer"), None, None),
     s      |-> Col(str("string"), None, None),
     cat    |-> Col(str("string"), str("category"),
                    list(<<str("x"), str("y"), str("z")>>)),
     string |-> None]

_max_selectors == 31

\* ------------------------------------------------------ BinOp properties

is_valid(lhs) == lhs.cls = "str" /\ lhs.val \in DOMAIN queryables

is_in_table(lhs) == is_valid(lhs) /\ queryables[lhs.val] # None

Attr(lhs, name) ==
    IF is_in_table(lhs) THEN queryables[lhs.val][name] ELSE None

kind(lhs) == Attr(lhs, "kind")

meta(lhs) == Attr(lhs, "meta")

metadata(lhs) == Attr(lhs, "metadata")

conform(rhs) == IF rhs.cls = "list" THEN rhs.val ELSE <<rhs>>

\* ------------------------------------------------------------ TermValue

TermValue(v, c, k) == [cls |-> "TermValue", value |-> v, converted |-> c, kind |-> k]

\* the texts of the model that hold an apostrophe: all but the literals,
\* that is, the texts made from a bytes
HasApostrophe(s) ==
    /\ ~IsNumericStr(s)
    /\ ~(\E i \in 1..Len(StrOrder) : StrOrder[i] = s)

\* the text an f-string (or str()) puts for a value; for a bytes this is its
\* repr, b'...', in double quotes when the text holds an apostrophe
Format(v) ==
    CASE v.cls = "int" -> ToString(v.val)
      [] v.cls = "NoneType" -> "None"
      [] v.cls = "bytes" -> IF HasApostrophe(v.val)
                            THEN "b\"" \o v.val \o "\""
                            ELSE "b'" \o v.val \o "'"
      [] OTHER -> v.val

pprint_thing(v) == str(Format(v))

pprint_thing_encoded(v, enc) == bytes(Format(v), enc.val)

stringify(v, enc) ==
    IF enc # None THEN pprint_thing_encoded(v, enc) ELSE pprint_thing(v)

tostring(tv, enc) ==
    IF tv.kind = str("string")
    THEN IF enc # None THEN Format(tv.converted)
         ELSE "\"" \o Format(tv.converted) \o "\""
    ELSE Format(tv.converted)

\* numpy's searchsorted(v, side='right') on a sorted array
searchsorted_right(md, v) ==
    IF \E i \in 1..Len(md) : md[i].cls # v.cls
    THEN Raise("TypeError", "'<' not supported")
    ELSE int(Cardinality({i \in 1..Len(md) : ~Less(v, md[i])}))

\* numpy's searchsorted(v, side='left') on a sorted array
searchsorted(md, v) ==
    IF \E i \in 1..Len(md) : md[i].cls # v.cls
    THEN Raise("TypeError", "'<' not supported")
    ELSE int(Cardinality({i \in 1..Len(md) : Less(md[i], v)}))

convert_value(lhs, v, enc) ==
    CASE meta(lhs) = str("category") ->
           LET result == searchsorted(metadata(lhs).val, v)
           IN  IF IsRaise(result) THEN result
               ELSE TermValue(result, result, str("integer"))
      [] meta(lhs) # str("category") /\ kind(lhs) = str("integer") ->
           IF v.cls = "int" THEN TermValue(v, v, kind(lhs))
           ELSE IF IsNumericStr(v.val)
                THEN TermValue(int(StrToInt(v.val)), int(StrToInt(v.val)), kind(lhs))
                ELSE Raise("ValueError", "could not convert string to float")
      [] OTHER ->
           IF v.cls # "str"
           THEN TermValue(stringify(v, enc), stringify(stringify(v, enc), enc),
                          str("string"))
           ELSE TermValue(v, stringify(v, enc), str("string"))

\* generate without the enclosing parentheses
generate_bare(op, lhs, v, enc) ==
    Format(lhs) \o " " \o op \o " " \o tostring(v, enc)

generate(op, lhs, v, enc) ==
    "(" \o Format(lhs) \o " " \o op \o " " \o tostring(v, enc) \o ")"

\* ------------------------------------------------------------ typed AST

Term(name) == [cls |-> "Term", value |-> str(name)]

Constant(v) == [cls |-> "Constant", value |-> v]

\* BinOp.__init__: a comparison or a boolean operation, as the visitor builds it
BinOp(op, lhs, rhs) ==
    [cls |-> "BinOp", op |-> op, lhs |-> lhs, rhs |-> rhs,
     filter |-> None, condition |-> None]

UnaryOp(op, operand) == [cls |-> "UnaryOp", op |-> op, operand |-> operand]

is_term(x) == x.cls \in {"Term", "Constant"}

\* ---------------------------------------------------- names and the visitor

\* a name of the parsed expression, not yet resolved
Name(id) == [cls |-> "Name", id |-> id]

\* the lexical scope the Expr captures: v is a local variable only, A is a
\* local variable and a queryable
scope == [v |-> int(1), A |-> int(7)]

\* self.env.resolve(name, is_local=False)
Scope_resolve(name) ==
    IF name \in DOMAIN scope THEN scope[name]
    ELSE Raise("UndefinedVariableError", "name is not defined")

\* Term._resolve_name that looks a left name up in the scope when it is no
\* queryable
Term_resolve_name_fallback(name, side) ==
    IF side = "left" /\ name \in DOMAIN queryables
    THEN str(name)
    ELSE IF name \in DOMAIN scope THEN scope[name]
    ELSE IF side = "left"
    THEN Raise("NameError", "name '" \o name \o "' is not defined")
    ELSE str(name)

Term_resolve_name(name, side) ==
    IF side = "left"
    THEN IF name \notin DOMAIN queryables
         THEN Raise("NameError", "name '" \o name \o "' is not defined")
         ELSE str(name)
    ELSE LET r == Scope_resolve(name)
         IN  IF IsRaise(r) THEN str(name) ELSE r

\* the visitor on a name: term_type(name, env, side), whose value is resolved
\* when the Term is built
visit_Name(node, side) ==
    LET v == Term_resolve_name(node.id, side)
    IN  IF IsRaise(v) THEN v ELSE [Term(node.id) EXCEPT !.value = v]

RECURSIVE visit(_, _)
\* the visitor: the typed AST of a parsed expression, or the exception raised
visit(node, side) ==
    CASE node.cls = "Name" -> visit_Name(node, side)
      [] node.cls = "BinOp" ->
           LET left == visit(node.lhs, "left")
           IN  IF IsRaise(left) THEN left
               ELSE LET right == visit(node.rhs, "right")
                    IN  IF IsRaise(right) THEN right
                        ELSE BinOp(node.op, left, right)
      [] node.cls = "UnaryOp" ->
           LET operand == visit(node.operand, "none")
           IN  IF IsRaise(operand) THEN operand ELSE UnaryOp(node.op, operand)
      [] OTHER -> node

\* --------------------------------------------------- classified variants

\* an instance of one of the four BinOp subclasses, as BinOp.__init__ leaves it
New(k, op, lhs, rhs) ==
    [cls |-> k, op |-> op, lhs |-> lhs, rhs |-> rhs,
     filter |-> None, condition |-> None]

IsConditionBinOp(x) == x.cls \in {"ConditionBinOp", "JointConditionBinOp"}

IsFilterBinOp(x) == x.cls \in {"FilterBinOp", "JointFilterBinOp"}

IsInstance(x, k) ==
    IF k = "ConditionBinOp" THEN IsConditionBinOp(x) ELSE IsFilterBinOp(x)

isin == [cls |-> "function", body |-> "axis.isin(vals)"]

not_isin == [cls |-> "function", body |-> "~axis.isin(vals)"]

\* generate_filter_op with the two operators taken for each other
generate_filter_op_swapped(op, inv) ==
    IF (op = "==" /\ ~inv) \/ (op = "!=" /\ inv) THEN not_isin ELSE isin

generate_filter_op(op, inv) ==
    IF (op = "!=" /\ ~inv) \/ (op = "==" /\ inv) THEN not_isin ELSE isin

Index(q) == [cls |-> "Index", val |-> q]

tuple(q) == [cls |-> "tuple", val |-> q]

\* FilterBinOp.evaluate with >= for > in the test against _max_selectors
FilterBinOp_evaluate_ge(self) ==
    IF ~is_valid(self.lhs)
    THEN Raise("ValueError", "query term is not valid")
    ELSE LET rhs == conform(self.rhs)
             triple == tuple(<<self.lhs,
                               IF self.op = "!=" THEN not_isin ELSE isin,
                               Index(rhs)>>)
         IN  IF is_in_table(self.lhs)
             THEN IF self.op \in {"==", "!="} /\ Len(rhs) >= _max_selectors
                  THEN [self EXCEPT !.filter = triple]
                  ELSE None
             ELSE IF self.op \in {"==", "!="}
                  THEN [self EXCEPT !.filter = triple]
                  ELSE Raise("TypeError",
                             "passing a filterable condition to a non-table indexer")

FilterBinOp_evaluate(self) ==
    IF ~is_valid(self.lhs)
    THEN Raise("ValueError", "query term is not valid")
    ELSE LET rhs == conform(self.rhs)
             values == [i \in 1..Len(rhs) |-> TermValue(rhs[i], rhs[i], kind(self.lhs))]
             triple == tuple(<<self.lhs, generate_filter_op(self.op, FALSE),
                               Index([i \in 1..Len(values) |-> values[i].value])>>)
         IN  IF is_in_table(self.lhs)
             THEN IF self.op \in {"==", "!="} /\ Len(values) > _max_selectors
                  THEN [self EXCEPT !.filter = triple]
                  ELSE None
             ELSE IF self.op \in {"==", "!="}
                  THEN [self EXCEPT !.filter = triple]
                  ELSE Raise("TypeError",
                             "passing a filterable condition to a non-table indexer")

\* FilterBinOp.invert that regenerates the predicate without invert=True
FilterBinOp_invert_plain(self) ==
    IF self.filter # None
    THEN [self EXCEPT !.filter =
             tuple([self.filter.val EXCEPT ![2] = IF self.op = "!=" THEN not_isin ELSE isin])]
    ELSE self

FilterBinOp_invert(self) ==
    IF self.filter # None
    THEN [self EXCEPT !.filter =
             tuple([self.filter.val EXCEPT ![2] = generate_filter_op(self.op, TRUE)])]
    ELSE self

JointFilterBinOp_evaluate(self) == self

\* ConditionBinOp.invert as its commented-out lines have it
ConditionBinOp_invert_tilde(self) ==
    IF self.condition # None
    THEN [self EXCEPT !.condition = str("~(" \o self.condition.val \o ")")]
    ELSE self

ConditionBinOp_invert(self) ==
    Raise("NotImplementedError",
          "cannot use an invert condition when passing to numexpr")

RECURSIVE Join(_, _)
\* sep.join(q)
Join(sep, q) ==
    IF Len(q) = 0 THEN ""
    ELSE IF Len(q) = 1 THEN q[1]
    ELSE q[1] \o sep \o Join(sep, Tail(q))

\* the first exception a list comprehension over q raises, or None
FirstRaise(q) ==
    IF \E i \in 1..Len(q) : IsRaise(q[i])
    THEN q[CHOOSE i \in 1..Len(q) :
               IsRaise(q[i]) /\ \A j \in 1..(i - 1) : ~IsRaise(q[j])]
    ELSE None

\* ConditionBinOp.evaluate without the test against _max_selectors
ConditionBinOp_evaluate_nolimit(self, enc) ==
    IF ~is_valid(self.lhs)
    THEN Raise("ValueError", "query term is not valid")
    ELSE IF ~is_in_table(self.lhs)
    THEN None
    ELSE LET rhs == conform(self.rhs)
             values == [i \in 1..Len(rhs) |-> convert_value(self.lhs, rhs[i], enc)]
         IN  IF \E i \in 1..Len(rhs) : IsRaise(values[i])
             THEN FirstRaise(values)
             ELSE IF self.op \in {"==", "!="}
             THEN IF FALSE
                  THEN None
                  ELSE LET vs == [i \in 1..Len(values) |->
                                     generate(self.op, self.lhs, values[i], enc)]
                       IN  [self EXCEPT
                               !.condition = str("(" \o Join(" | ", vs) \o ")")]
             ELSE IF Len(values) = 0
             THEN Raise("IndexError", "list index out of range")
             ELSE [self EXCEPT
                      !.condition = str(generate(self.op, self.lhs, values[1], enc))]

\* ConditionBinOp.evaluate taking the last value of an ordering comparison
ConditionBinOp_evaluate_last(self, enc) ==
    IF ~is_valid(self.lhs)
    THEN Raise("ValueError", "query term is not valid")
    ELSE IF ~is_in_table(self.lhs)
    THEN None
    ELSE LET rhs == conform(self.rhs)
             values == [i \in 1..Len(rhs) |-> convert_value(self.lhs, rhs[i], enc)]
         IN  IF \E i \in 1..Len(rhs) : IsRaise(values[i])
             THEN FirstRaise(values)
             ELSE IF self.op \in {"==", "!="}
             THEN IF Len(values) > _max_selectors
                  THEN None
                  ELSE LET vs == [i \in 1..Len(values) |->
                                     generate(self.op, self.lhs, values[i], enc)]
                       IN  [self EXCEPT
                               !.condition = str("(" \o Join(" | ", vs) \o ")")]
             ELSE IF Len(values) = 0
             THEN Raise("IndexError", "list index out of range")
             ELSE [self EXCEPT
                      !.condition = str(generate(self.op, self.lhs, values[Len(values)], enc))]

\* ConditionBinOp.evaluate that joins the terms of a != by " & "
ConditionBinOp_evaluate_conjoin(self, enc) ==
    IF ~is_valid(self.lhs)
    THEN Raise("ValueError", "query term is not valid")
    ELSE IF ~is_in_table(self.lhs)
    THEN None
    ELSE LET rhs == conform(self.rhs)
             values == [i \in 1..Len(rhs) |-> convert_value(self.lhs, rhs[i], enc)]
         IN  IF \E i \in 1..Len(rhs) : IsRaise(values[i])
             THEN FirstRaise(values)
             ELSE IF self.op \in {"==", "!="}
             THEN IF Len(values) > _max_selectors
                  THEN None
                  ELSE LET vs == [i \in 1..Len(values) |->
                                     generate(self.op, self.lhs, values[i], enc)]
                       IN  [self EXCEPT
                               !.condition =
                                   str("(" \o Join(IF self.op = "!=" THEN " & "
                                                   ELSE " | ", vs) \o ")")]
             ELSE IF Len(values) = 0
             THEN Raise("IndexError", "list index out of range")
             ELSE [self EXCEPT
                      !.condition = str(generate(self.op, self.lhs, values[1], enc))]

ConditionBinOp_evaluate(self, enc) ==
    IF ~is_valid(self.lhs)
    THEN Raise("ValueError", "query term is not valid")
    ELSE IF ~is_in_table(self.lhs)
    THEN None
    ELSE LET rhs == conform(self.rhs)
             values == [i \in 1..Len(rhs) |-> convert_value(self.lhs, rhs[i], enc)]
         IN  IF \E i \in 1..Len(rhs) : IsRaise(values[i])
             THEN FirstRaise(values)
             ELSE IF self.op \in {"==", "!="}
             THEN IF Len(values) > _max_selectors
                  THEN None
                  ELSE LET vs == [i \in 1..Len(values) |->
                                     generate(self.op, self.lhs, values[i], enc)]
                       IN  [self EXCEPT
                               !.condition = str("(" \o Join(" | ", vs) \o ")")]
             ELSE IF Len(values) = 0
             THEN Raise("IndexError", "list index out of range")
             ELSE [self EXCEPT
                      !.condition = str(generate(self.op, self.lhs, values[1], enc))]

\* JointConditionBinOp.evaluate with the operands the other way round
JointConditionBinOp_evaluate_swapped(self) ==
    [self EXCEPT !.condition =
        str("(" \o Format(self.rhs.condition) \o " " \o self.op \o " "
                \o Format(self.lhs.condition) \o ")")]

JointConditionBinOp_evaluate(self) ==
    [self EXCEPT !.condition =
        str("(" \o Format(self.lhs.condition) \o " " \o self.op \o " "
                \o Format(self.rhs.condition) \o ")")]

\* k(op, left, right, ...).evaluate() for the class k
Evaluate(k, op, left, right, enc) ==
    CASE k = "ConditionBinOp" -> ConditionBinOp_evaluate(New(k, op, left, right), enc)
      [] k = "JointConditionBinOp" -> JointConditionBinOp_evaluate(New(k, op, left, right))
      [] k = "FilterBinOp" -> FilterBinOp_evaluate(New(k, op, left, right))
      [] k = "JointFilterBinOp" -> JointFilterBinOp_evaluate(New(k, op, left, right))

\* the inner function pr of BinOp.prune, for the node's op and encoding
\* pr that lets a null operand through a conjunction only
pr_conjunction(op, klass, left, right, enc) ==
    IF left = None THEN (IF op = "|" THEN None ELSE right)
    ELSE IF right = None THEN (IF op = "|" THEN None ELSE left)
    ELSE IF IsConditionBinOp(left)
    THEN IF IsConditionBinOp(right)
         THEN Evaluate("JointConditionBinOp", op, left, right, enc)
         ELSE IF IsInstance(left, klass) THEN left
         ELSE IF IsInstance(right, klass) THEN right
         ELSE Evaluate(klass, op, left, right, enc)
    ELSE IF IsFilterBinOp(left)
    THEN IF IsFilterBinOp(right)
         THEN Evaluate("JointFilterBinOp", op, left, right, enc)
         ELSE IF IsInstance(left, klass) THEN left
         ELSE IF IsInstance(right, klass) THEN right
         ELSE Evaluate(klass, op, left, right, enc)
    ELSE Evaluate(klass, op, left, right, enc)

pr(op, klass, left, right, enc) ==
    IF left = None THEN right
    ELSE IF right = None THEN left
    ELSE IF IsConditionBinOp(left)
    THEN IF IsConditionBinOp(right)
         THEN Evaluate("JointConditionBinOp", op, left, right, enc)
         ELSE IF IsInstance(left, klass) THEN left
         ELSE IF IsInstance(right, klass) THEN right
         ELSE Evaluate(klass, op, left, right, enc)
    ELSE IF IsFilterBinOp(left)
    THEN IF IsFilterBinOp(right)
         THEN Evaluate("JointFilterBinOp", op, left, right, enc)
         ELSE IF IsInstance(left, klass) THEN left
         ELSE IF IsInstance(right, klass) THEN right
         ELSE Evaluate(klass, op, left, right, enc)
    ELSE Evaluate(klass, op, left, right, enc)

\* operand.invert() by the operand's class
invert(operand) ==
    IF IsConditionBinOp(operand) THEN ConditionBinOp_invert(operand)
    ELSE FilterBinOp_invert(operand)

\* UnaryOp.prune that inverts every operand that is not None
UnaryOp_prune_always(op, klass, operand) ==
    IF op # "~"
    THEN Raise("NotImplementedError", "UnaryOp only support invert type ops")
    ELSE IF operand = None THEN None
    ELSE IF ~(IsConditionBinOp(operand) \/ IsFilterBinOp(operand))
    THEN Raise("AttributeError", "object has no attribute 'condition'")
    ELSE invert(operand)

\* UnaryOp.prune that keeps the ~ over an operand it does not invert
UnaryOp_prune_wrap(op, klass, operand) ==
    IF op # "~"
    THEN Raise("NotImplementedError", "UnaryOp only support invert type ops")
    ELSE IF operand = None THEN None
    ELSE IF ~(IsConditionBinOp(operand) \/ IsFilterBinOp(operand))
    THEN Raise("AttributeError", "object has no attribute 'condition'")
    ELSE IF \/ klass = "ConditionBinOp" /\ operand.condition # None
            \/ klass = "FilterBinOp" /\ operand.filter # None
    THEN invert(operand)
    ELSE UnaryOp(op, operand)

\* UnaryOp.prune after its operand was pruned
UnaryOp_prune(op, klass, operand) ==
    IF op # "~"
    THEN Raise("NotImplementedError", "UnaryOp only support invert type ops")
    ELSE IF operand = None THEN None
    ELSE IF ~(IsConditionBinOp(operand) \/ IsFilterBinOp(operand))
    THEN Raise("AttributeError", "object has no attribute 'condition'")
    ELSE IF \/ klass = "ConditionBinOp" /\ operand.condition # None
            \/ klass = "FilterBinOp" /\ operand.filter # None
    THEN invert(operand)
    ELSE None

RECURSIVE prune(_, _, _)
\* node.prune(klass): a pruned node, None, or the exception raised
prune(node, klass, enc) ==
    CASE node.cls = "BinOp" ->
           LET left == IF is_term(node.lhs) THEN node.lhs.value
                       ELSE prune(node.lhs, klass, enc)
           IN  IF IsRaise(left) THEN left
               ELSE LET right == IF is_term(node.rhs) THEN node.rhs.value
                                 ELSE prune(node.rhs, klass, enc)
                    IN  IF IsRaise(right) THEN right
                        ELSE pr(node.op, klass, left, right, enc)
      [] node.cls = "UnaryOp" ->
           IF node.op # "~"
           THEN UnaryOp_prune(node.op, klass, None)
           ELSE LET operand == prune(node.operand, klass, enc)
                IN  IF IsRaise(operand) THEN operand
                    ELSE UnaryOp_prune(node.op, klass, operand)
      [] OTHER -> Raise("AttributeError", "object has no attribute 'prune'")

\* ------------------------------------------------------------------ Expr

RECURSIVE AbsorbInversion(_)
\* the AST with the comparison under each ~ negated in place
AbsorbInversion(t) ==
    CASE t.cls = "UnaryOp" ->
           IF t.operand.cls = "BinOp" /\ t.operand.op \in {"==", "!="}
           THEN [t EXCEPT !.operand.op = IF @ = "==" THEN "!=" ELSE "=="]
           ELSE [t EXCEPT !.operand = AbsorbInversion(@)]
      [] t.cls = "BinOp" /\ ~is_term(t.lhs) /\ ~is_term(t.rhs) ->
           [t EXCEPT !.lhs = AbsorbInversion(@), !.rhs = AbsorbInversion(@)]
      [] OTHER -> t

\* Expr.evaluate with pruning that inverts the typed AST in place
Expr_evaluate_inplace(self) ==
    LET c == prune(self.terms, "ConditionBinOp", self.encoding)
    IN  IF IsRaise(c)
        THEN [self |-> self,
              ret  |-> IF c.exc = "AttributeError"
                       THEN Raise("ValueError", "is not a valid condition")
                       ELSE c]
        ELSE LET s1 == [self EXCEPT !.condition = c]
                 f  == prune(self.terms, "FilterBinOp", self.encoding)
             IN  IF IsRaise(f)
                 THEN [self |-> s1,
                       ret  |-> IF f.exc = "AttributeError"
                                THEN Raise("ValueError", "is not a valid filter")
                                ELSE f]
                 ELSE [self |-> [s1 EXCEPT !.filter = f,
                                           !.terms = AbsorbInversion(@)],
                       ret  |-> tuple(<<c, f>>)]

\* Expr.evaluate with the two prunes in the other order
Expr_evaluate_filter_first(self) ==
    LET f == prune(self.terms, "FilterBinOp", self.encoding)
    IN  IF IsRaise(f)
        THEN [self |-> self,
              ret  |-> IF f.exc = "AttributeError"
                       THEN Raise("ValueError", "is not a valid filter")
                       ELSE f]
        ELSE LET s1 == [self EXCEPT !.filter = f]
                 c  == prune(self.terms, "ConditionBinOp", self.encoding)
             IN  IF IsRaise(c)
                 THEN [self |-> s1,
                       ret  |-> IF c.exc = "AttributeError"
                                THEN Raise("ValueError", "is not a valid condition")
                                ELSE c]
                 ELSE [self |-> [s1 EXCEPT !.condition = c],
                       ret  |-> tuple(<<c, f>>)]

\* Expr.evaluate on the Expr self: the Expr afterwards, and what the call
\* returns or raises
Expr_evaluate(self) ==
    LET c == prune(self.terms, "ConditionBinOp", self.encoding)
    IN  IF IsRaise(c)
        THEN [self |-> self,
              ret  |-> IF c.exc = "AttributeError"
                       THEN Raise("ValueError", "is not a valid condition")
                       ELSE c]
        ELSE LET s1 == [self EXCEPT !.condition = c]
                 f  == prune(self.terms, "FilterBinOp", self.encoding)
             IN  IF IsRaise(f)
                 THEN [self |-> s1,
                       ret  |-> IF f.exc = "AttributeError"
                                THEN Raise("ValueError", "is not a valid filter")
                                ELSE f]
                 ELSE [self |-> [s1 EXCEPT !.filter = f],
                       ret  |-> tuple(<<c, f>>)]

\* ------------------------------------------------------------ the inputs

Fields == DOMAIN queryables

CompareOps == {"==", "!=", "<", "<=", ">", ">="}

BoolOps == {"&", "|"}

IntList(k) == list([i \in 1..k |-> int(i)])

Rhs == {IntList(k) : k \in 0..MaxValues}
         \cup {int(2), str("y"), str("bar"), str("w"), list(<<str("x"), str("z")>>)}

SmallRhs == {int(1), str("y"), IntList(MaxValues)}

Compare(f, op, v) == BinOp(op, Name(f), Constant(v))

Comparisons == {Compare(f, op, v) : f \in Fields, op \in CompareOps, v \in Rhs}

MidRhs == {IntList(k) : k \in {0, 1, 3, _max_selectors, _max_selectors + 1, MaxValues}}
            \cup {int(2), str("y"), str("bar"), str("w")}

MidComparisons == {Compare(f, op, v) : f \in Fields, op \in CompareOps, v \in MidRhs}

SmallComparisons ==
    {Compare(f, op, v) : f \in Fields, op \in {"==", "!=", ">="}, v \in SmallRhs}

TinyComparisons ==
    {Compare(f, op, v) : f \in {"A", "string"}, op \in {"==", ">="},
                         v \in {int(1), IntList(MaxValues)}}

\* comparisons on the category field with literals in and between its
\* categories
CategoryComparisons ==
    {Compare("cat", op, str(v)) : op \in {"==", "<"}, v \in {"x", "z", "ya", "zz"}}

PairComparisons ==
    {Compare(f, op, v) : f \in Fields, op \in {"==", ">="}, v \in SmallRhs}

\* a condition-eligible equality, a condition-eligible ordering and a
\* filter-eligible equality
DeepLeaves ==
    {Compare("A", "==", int(1)), Compare("A", ">=", int(1)),
     Compare("string", "==", int(1))}

Inverted(S) == {UnaryOp("~", t) : t \in S}

Joined(S, T) == {BinOp(b, l, r) : b \in BoolOps, l \in S, r \in T}

\* comparisons of a name with a name: the left name a queryable, a local
\* variable or unknown, the right name a local variable, a queryable, both or
\* unknown
NameComparisons ==
    {BinOp(op, Name(l), Name(r)) : op \in {"==", ">="},
                                   l \in {"A", "string", "v", "missing"},
                                   r \in {"v", "A", "s", "missing"}}

\* the parsed expressions: comparisons, boolean trees over them, inversions;
\* bare names; None for an Expr built without queryables, which parses
\* nothing
Trees ==
    Comparisons
      \cup Inverted(MidComparisons)
      \cup Inverted(Inverted(SmallComparisons))
      \cup Joined(PairComparisons, PairComparisons)
      \cup Joined(Inverted(TinyComparisons), TinyComparisons)
      \cup Joined(TinyComparisons, Inverted(TinyComparisons))
      \cup Inverted(Joined(TinyComparisons, TinyComparisons))
      \cup Joined(Joined(DeepLeaves, DeepLeaves), DeepLeaves)
      \cup Joined(DeepLeaves, Joined(DeepLeaves, DeepLeaves))
      \cup NameComparisons
      \cup CategoryComparisons
      \cup {Name("A"), Name("missing"), None}

\* ------------------------------------------------------------------ format

\* ConditionBinOp.format: the condition string
ConditionBinOp_format(self) == self.condition

\* FilterBinOp.format: the one-element list of the filter triple
FilterBinOp_format(self) == list(<<self.filter>>)

\* JointFilterBinOp.format as FilterBinOp.format, were it not overridden
JointFilterBinOp_format_inherited(self) == FilterBinOp_format(self)

JointFilterBinOp_format(self) ==
    Raise("NotImplementedError", "unable to collapse Joint Filters")

\* node.format(), dispatched on the node's class
format(node) ==
    CASE node.cls = "JointFilterBinOp" -> JointFilterBinOp_format(node)
      [] node.cls = "FilterBinOp" -> FilterBinOp_format(node)
      [] OTHER -> ConditionBinOp_format(node)

\* ---------------------------------------------------------- the machine

\* Expr.__init__: self.terms = self.parse(); a name that does not resolve
\* makes the constructor raise
Init ==
    /\ expr \in Trees
    /\ encoding \in IF expr \in Comparisons THEN {None, str("UTF-8")} ELSE {None}
    /\ \E t \in {visit(expr, "none")} :
          IF IsRaise(t)
          THEN terms = None /\ status = "failed" /\ ret = t
          ELSE terms = t /\ status = "new" /\ ret = None
    /\ condition = None
    /\ filter = None
    /\ prev = None
    /\ calls = 0
    /\ inverts = 0
    /\ formatted = None

\* a call of Expr.evaluate()
DoEvaluate ==
    /\ status # "failed"
    /\ calls < MaxCalls
    /\ \E r \in {Expr_evaluate([terms |-> terms, encoding |-> encoding,
                                condition |-> condition, filter |-> filter])} :
           /\ terms' = r.self.terms
           /\ condition' = r.self.condition
           /\ filter' = r.self.filter
           /\ ret' = r.ret
           /\ status' = IF IsRaise(r.ret) THEN "raised" ELSE "returned"
    /\ prev' = ret
    /\ calls' = calls + 1
    /\ inverts' = 0
    /\ formatted' = None
    /\ UNCHANGED <<expr, encoding>>

\* a call of invert() on the filter node evaluate() returned
DoInvert ==
    /\ status = "returned"
    /\ IsFilterBinOp(filter)
    /\ inverts < MaxInverts
    /\ filter' = FilterBinOp_invert(filter)
    /\ inverts' = inverts + 1
    /\ formatted' = None
    /\ UNCHANGED <<expr, terms, encoding, condition, status, ret, prev, calls>>

\* the caller formats one node of the returned pair: condition.format() or
\* filter.format()
DoFormat ==
    /\ status = "returned"
    /\ \E role \in {"condition", "filter"} :
          LET node == IF role = "condition" THEN condition ELSE filter
          IN  /\ node # None
              /\ formatted' = [role |-> role, result |-> format(node)]
    /\ UNCHANGED <<expr, terms, encoding, condition, filter, status, ret, prev,
                   calls, inverts>>

Next == DoEvaluate \/ DoInvert \/ DoFormat

Spec == Init /\ [][Next]_vars

\* ---------------------------------------------------------- the claims

IsComparison(t) == t.cls = "BinOp" /\ is_term(t.lhs) /\ is_term(t.rhs)

Field(t) == t.lhs.value

Values(t) == conform(t.rhs.value)

EqOps == {"==", "!="}

OrderingOps == {"<", "<=", ">", ">="}

\* every right-hand value of the comparison t converts to the kind of its field
Converts(t) ==
    \A i \in 1..Len(Values(t)) : ~IsRaise(convert_value(Field(t), Values(t)[i], encoding))

\* the text of the i-th right-hand value of t in a condition
Wire(t, i) == tostring(convert_value(Field(t), Values(t)[i], encoding), encoding)

HasCondition(n) == IsConditionBinOp(n) /\ n.condition # None

HasFilter(n) == IsFilterBinOp(n) /\ n.filter # None /\ n.filter.cls = "tuple"

\* the triple of a filter over the right-hand values of the comparison t
Triple(t, pred) == tuple(<<Field(t), pred, Index(Values(t))>>)

\* C1: an ==/!= comparison on an in-table field whose k values convert
\* becomes a condition and no filter for every k <= 31, and a filter triple
\* and no condition for every k >= 32.
C1_Threshold ==
    (/\ calls > 0
     /\ IsComparison(terms)
     /\ terms.op \in EqOps
     /\ is_in_table(Field(terms))
     /\ Converts(terms))
    => /\ status = "returned"
       /\ Len(Values(terms)) <= 31 => HasCondition(condition) /\ filter = None
       /\ Len(Values(terms)) >= 32 => condition = None /\ HasFilter(filter)

C1_Witness ==
    /\ calls > 0
    /\ IsComparison(terms)
    /\ terms.op = "=="
    /\ Field(terms) = str("A")
    /\ Len(Values(terms)) = 32
    /\ condition = None
    /\ HasFilter(filter)

ConditionEligible(t) ==
    /\ IsComparison(t)
    /\ is_in_table(Field(t))
    /\ \/ t.op \in OrderingOps
       \/ t.op \in EqOps /\ Len(Values(t)) <= 31

FilterEligible(t) ==
    /\ IsComparison(t)
    /\ t.op \in EqOps
    /\ is_valid(Field(t))
    /\ \/ ~is_in_table(Field(t))
       \/ Len(Values(t)) > 31

\* (C1 & C2) | F with C1, C2 condition-eligible and F an == comparison on a
\* field that is valid but not in-table
IsDisjunctionWithFilter(t) ==
    /\ t.cls = "BinOp" /\ t.op = "|"
    /\ t.lhs.cls = "BinOp" /\ t.lhs.op = "&"
    /\ ConditionEligible(t.lhs.lhs) /\ Converts(t.lhs.lhs) /\ Len(Values(t.lhs.lhs)) > 0
    /\ ConditionEligible(t.lhs.rhs) /\ Converts(t.lhs.rhs) /\ Len(Values(t.lhs.rhs)) > 0
    /\ IsComparison(t.rhs) /\ t.rhs.op = "=="
    /\ is_valid(Field(t.rhs)) /\ ~is_in_table(Field(t.rhs))

\* C2: for (C1 & C2) | F, with F a filter-only comparison, evaluate()
\* returns a null condition and a filter holding F's triple.
C2_DisjunctionNotPushedDown ==
    (calls > 0 /\ inverts = 0 /\ IsDisjunctionWithFilter(terms))
    => /\ status = "returned"
       /\ condition = None
       /\ HasFilter(filter)
       /\ filter.filter = Triple(terms.rhs, isin)

\* C3: two invert() calls on a filter node leave its triple as it was before
\* them.
C3_InvertTwiceIsIdentity ==
    (status = "returned" /\ inverts = 2 /\ HasFilter(filter))
    => filter.filter = ret.val[2].filter

\* C4: for a filter-class comparison F, the filter of ~F has F's column and
\* values and the opposite predicate: not-isin for ==, isin for !=.
C4_InvertedFilter ==
    (/\ calls > 0
     /\ inverts = 0
     /\ status = "returned"
     /\ terms.cls = "UnaryOp"
     /\ FilterEligible(terms.operand))
    => /\ HasFilter(filter)
       /\ filter.filter =
            Triple(terms.operand, IF terms.operand.op = "==" THEN not_isin ELSE isin)

C4_Witness ==
    /\ calls > 0
    /\ inverts = 0
    /\ status = "returned"
    /\ terms.cls = "UnaryOp"
    /\ FilterEligible(terms.operand)
    /\ terms.operand.op = "!="
    /\ Len(Values(terms.operand)) > 31
    /\ HasFilter(filter)
    /\ filter.filter.val[2] = isin

\* the operand of ~ prunes at role Condition to a node that holds a condition
OperandHasCondition(t) ==
    /\ t.cls = "UnaryOp"
    /\ \E e \in {prune(t.operand, "ConditionBinOp", encoding)} :
          ~IsRaise(e) /\ HasCondition(e)

\* C5: evaluate() on ~E, with E pruning at role Condition to a node with a
\* condition, raises 'cannot use an invert condition' and returns no pair.
C5_NoConditionInversion ==
    (calls > 0 /\ OperandHasCondition(terms))
    => /\ status = "raised"
       /\ ret = Raise("NotImplementedError",
                      "cannot use an invert condition when passing to numexpr")
       /\ condition = None
       /\ filter = None

C5_Witness ==
    /\ calls > 0
    /\ expr = UnaryOp("~", Compare("A", "==", IntList(3)))
    /\ status = "raised"
    /\ ret.exc = "NotImplementedError"

C5_WitnessJoint ==
    /\ calls > 0
    /\ terms.cls = "UnaryOp"
    /\ terms.operand.cls = "BinOp"
    /\ ~IsComparison(terms.operand)
    /\ OperandHasCondition(terms)
    /\ status = "raised"

RECURSIVE AllConditionEligible(_)
\* every comparison of the boolean tree t is condition-eligible
AllConditionEligible(t) ==
    CASE t.cls = "UnaryOp" -> AllConditionEligible(t.operand)
      [] t.cls = "BinOp" /\ ~IsComparison(t) ->
           AllConditionEligible(t.lhs) /\ AllConditionEligible(t.rhs)
      [] OTHER -> ConditionEligible(t)

RECURSIVE AllFilterEligible(_)
\* every comparison of the boolean tree t is filter-eligible
AllFilterEligible(t) ==
    CASE t.cls = "UnaryOp" -> AllFilterEligible(t.operand)
      [] t.cls = "BinOp" /\ ~IsComparison(t) ->
           AllFilterEligible(t.lhs) /\ AllFilterEligible(t.rhs)
      [] OTHER -> FilterEligible(t)

IsTree(t) == t.cls \in {"BinOp", "UnaryOp"}

\* C6: when evaluate() returns, a tree whose comparisons are all
\* condition-eligible has a null filter, and a tree whose comparisons are all
\* filter-eligible has a null condition.
C6_PureTrees ==
    (calls > 0 /\ status = "returned" /\ IsTree(terms))
    => /\ AllConditionEligible(terms) => filter = None
       /\ AllFilterEligible(terms) => condition = None

C6_Witness ==
    /\ calls > 0
    /\ status = "returned"
    /\ terms.cls = "BinOp"
    /\ ~IsComparison(terms)
    /\ ~IsComparison(terms.lhs)
    /\ AllConditionEligible(terms)
    /\ HasCondition(condition)
    /\ filter = None

C6_WitnessFilters ==
    /\ calls > 0
    /\ status = "returned"
    /\ terms.cls = "BinOp"
    /\ ~IsComparison(terms)
    /\ AllFilterEligible(terms)
    /\ condition = None
    /\ filter # None

C8_WitnessFilter ==
    /\ calls > 0
    /\ inverts = 0
    /\ expr = Compare("string", "==", str("bar"))
    /\ status = "returned"
    /\ condition = None
    /\ filter.filter = tuple(<<str("string"), isin, Index(<<str("bar")>>)>>)

IsSingleEquality(t) ==
    /\ IsComparison(t)
    /\ t.op \in EqOps
    /\ is_in_table(Field(t))
    /\ Len(Values(t)) = 1
    /\ Converts(t)

\* the per-value term (<lhs> <op> <wire-value>) of the i-th value of t
ValueTerm(t, i) ==
    "(" \o Field(t).val \o " " \o t.op \o " " \o Wire(t, i) \o ")"

\* C9 as stated: the condition of a single-valued ==/!= comparison on an
\* in-table field is (<lhs> <op> <wire-value>), in one pair of parentheses.
C9_OnePairOfParentheses ==
    (calls > 0 /\ IsSingleEquality(terms))
    => /\ HasCondition(condition)
       /\ condition.condition = str(ValueTerm(terms, 1))

\* C9 as amended: the condition of a single-valued ==/!= comparison on an
\* in-table field is ((<lhs> <op> <wire-value>)), the per-value term in one
\* more pair of parentheses; cat == "y" with metadata [x, y, z] and no
\* encoding gives ((cat == 1)).
C9_TwoPairsOfParentheses ==
    (calls > 0 /\ IsSingleEquality(terms))
    => /\ status = "returned"
       /\ HasCondition(condition)
       /\ condition.condition = str("(" \o ValueTerm(terms, 1) \o ")")
       /\ (expr = Compare("cat", "==", str("y")))
            => condition.condition = str("((cat == 1))")
       /\ filter = None

C9_Witness ==
    /\ calls > 0
    /\ expr = Compare("cat", "==", str("y"))
    /\ encoding = None
    /\ status = "returned"
    /\ condition.condition = str("((cat == 1))")

\* C10: an ordering comparison on an in-table field with one or more values,
\* all of which convert, gives the condition (<lhs> <op> <wire-value of the
\* first value>) and a null filter, whatever the number of values.
C10_Ordering ==
    (/\ calls > 0
     /\ IsComparison(terms)
     /\ terms.op \in OrderingOps
     /\ is_in_table(Field(terms))
     /\ Len(Values(terms)) >= 1
     /\ Converts(terms))
    => /\ status = "returned"
       /\ HasCondition(condition)
       /\ condition.condition = str(ValueTerm(terms, 1))
       /\ filter = None

C10_Witness ==
    /\ calls > 0
    /\ IsComparison(terms)
    /\ terms.op = ">="
    /\ Field(terms) = str("A")
    /\ Len(Values(terms)) > 31
    /\ status = "returned"
    /\ condition.condition = str("(A >= 1)")
    /\ filter = None

CategoryCode(md, v) ==
    IF \E i \in 1..Len(md) : md[i] = v
    THEN (CHOOSE i \in 1..Len(md) : md[i] = v) - 1
    ELSE Cardinality({i \in 1..Len(md) : Less(md[i], v)})

IsCategoryComparison(t) ==
    /\ IsComparison(t)
    /\ meta(Field(t)) = str("category")
    /\ Len(Values(t)) = 1
    /\ Values(t)[1].cls = "str"

\* C12: on a category field with sorted metadata [c0, ..., cn], a literal
\* equal to ck converts to the wire value k and a literal outside the
\* metadata to its bisect-left insertion index, both of wire kind integer,
\* so that the condition carries the bare number.
C12_CategoryCode ==
    (calls > 0 /\ IsCategoryComparison(terms))
    => LET v == Values(terms)[1]
           k == CategoryCode(metadata(Field(terms)).val, v)
       IN  /\ convert_value(Field(terms), v, encoding)
                 = TermValue(int(k), int(k), str("integer"))
           /\ status = "returned"
           /\ HasCondition(condition)
           /\ condition.condition =
                 str(IF terms.op \in EqOps
                     THEN "((cat " \o terms.op \o " " \o ToString(k) \o "))"
                     ELSE "(cat " \o terms.op \o " " \o ToString(k) \o ")")
           /\ (v = str("z")) => k = 2
           /\ (v = str("ya")) => k = 2
           /\ (v = str("zz")) => k = 3
           /\ (v = str("bar")) => k = 0

\* a literal between two categories, and one that is the last category
C12_Witness ==
    /\ calls > 0
    /\ expr = Compare("cat", "==", str("ya"))
    /\ condition.condition = str("((cat == 2))")

C12_WitnessMember ==
    /\ calls > 0
    /\ expr = Compare("cat", "==", str("z"))
    /\ condition.condition = str("((cat == 2))")

\* a comparison on an in-table field with one right-hand value, which converts
IsSingleValued(t) ==
    /\ IsComparison(t)
    /\ is_in_table(Field(t))
    /\ Len(Values(t)) = 1
    /\ Converts(t)

\* the text of a literal as written
Text(v) == IF v.cls = "int" THEN ToString(v.val) ELSE v.val

\* the condition of the single-valued comparison t with the text wire for
\* its value
ConditionWith(t, wire) ==
    LET term == "(" \o Field(t).val \o " " \o t.op \o " " \o wire \o ")"
    IN  str(IF t.op \in EqOps THEN "(" \o term \o ")" ELSE term)

\* C13 as stated: in the emitted condition a value of wire kind string is in
\* double quotes exactly when the encoding is null and is the raw text when
\* an encoding is set; a value of another wire kind is always bare.
C13_RawWhenEncoded ==
    (calls > 0 /\ IsSingleValued(terms))
    => LET v == Values(terms)[1]
           tv == convert_value(Field(terms), v, encoding)
       IN  /\ status = "returned"
           /\ condition.condition =
                 ConditionWith(terms,
                     IF tv.kind = str("string")
                     THEN IF encoding = None
                          THEN "\"" \o Text(v) \o "\""
                          ELSE Text(v)
                     ELSE ToString(tv.converted.val))

\* C14: the left name of a comparison is looked up in the queryables only:
\* it resolves to its own name when it is a queryable, and the constructor
\* fails with a NameError when it is not, a local variable of that name
\* notwithstanding. The right name is looked up in the lexical scope only
\* and never fails: it resolves to the variable's value, or to its own name
\* as a string when the scope has no such variable.
C14_OneNameSource ==
    (expr.cls = "BinOp" /\ expr.lhs.cls = "Name")
    => LET l == expr.lhs.id
       IN  IF l \notin DOMAIN queryables
           THEN /\ status = "failed"
                /\ calls = 0
                /\ terms = None
                /\ ret = Raise("NameError", "name '" \o l \o "' is not defined")
           ELSE /\ status # "failed"
                /\ terms.lhs = Term(l)
                /\ (expr.rhs.cls = "Name")
                     => /\ terms.rhs.cls = "Term"
                        /\ terms.rhs.value =
                              IF expr.rhs.id \in DOMAIN scope
                              THEN scope[expr.rhs.id]
                              ELSE str(expr.rhs.id)

\* a local variable on the left is an undefined name
C14_Witness ==
    /\ expr = BinOp("==", Name("v"), Name("v"))
    /\ status = "failed"
    /\ ret = Raise("NameError", "name 'v' is not defined")

\* a queryable on the right is the local variable of that name
C14_WitnessRight ==
    /\ expr = BinOp("==", Name("A"), Name("A"))
    /\ status = "returned"
    /\ condition.condition = str("((A == 7))")

\* an unknown name on the right is the name as a string
C14_WitnessUnresolved ==
    /\ expr = BinOp("==", Name("string"), Name("missing"))
    /\ status = "returned"
    /\ filter.filter = tuple(<<str("string"), isin, Index(<<str("missing")>>)>>)

\* the root of the typed AST has no prune: nothing was parsed, or the whole
\* expression is a bare term
HasNoPrune(t) == t = None \/ is_term(t)

\* C15: evaluate() prunes at role Condition first: on an Expr whose root has
\* no prune it fails with "not a valid condition", never with "not a valid
\* filter", and the Filter prune is not attempted, so no filter is stored.
C15_ConditionFirst ==
    (calls > 0 /\ HasNoPrune(terms))
    => /\ status = "raised"
       /\ ret = Raise("ValueError", "is not a valid condition")
       /\ ret # Raise("ValueError", "is not a valid filter")
       /\ condition = None
       /\ filter = None

\* an Expr built without queryables
C15_Witness ==
    /\ calls > 0
    /\ expr = None
    /\ terms = None
    /\ ret = Raise("ValueError", "is not a valid condition")

\* an Expr whose whole expression is a bare name
C15_WitnessTerm ==
    /\ calls > 0
    /\ expr = Name("A")
    /\ terms.cls = "Term"
    /\ ret = Raise("ValueError", "is not a valid condition")

\* a boolean node over two subtrees
IsBoolean(t) ==
    /\ t.cls = "BinOp"
    /\ t.op \in BoolOps
    /\ ~is_term(t.lhs)
    /\ ~is_term(t.rhs)

\* what evaluate() stored for the role klass
Stored(klass) == IF klass = "ConditionBinOp" THEN condition ELSE filter

\* C16: at either role, a boolean node one of whose operands prunes to null
\* gives the pruned node of the other operand unchanged, and null when both
\* prune to null, for & and for | alike.
C16_NullAbsorption ==
    (calls > 0 /\ status = "returned" /\ inverts = 0 /\ IsBoolean(terms))
    => \A klass \in {"ConditionBinOp", "FilterBinOp"} :
          LET left == prune(terms.lhs, klass, encoding)
              right == prune(terms.rhs, klass, encoding)
          IN  /\ (left = None /\ right = None) => Stored(klass) = None
              /\ (left = None /\ right # None) => Stored(klass) = right
              /\ (left # None /\ right = None) => Stored(klass) = left

\* a disjunction of a condition and a filter: each role keeps its operand
C16_Witness ==
    /\ calls > 0
    /\ status = "returned"
    /\ inverts = 0
    /\ expr = BinOp("|", Compare("A", ">=", int(1)), Compare("string", "==", int(1)))
    /\ condition.condition = str("(A >= 1)")
    /\ filter.filter = tuple(<<str("string"), isin, Index(<<int(1)>>)>>)

\* a conjunction of two operands with nothing for role Condition
C16_WitnessBothNull ==
    /\ calls > 0
    /\ status = "returned"
    /\ terms.cls = "BinOp"
    /\ terms.op = "&"
    /\ condition = None
    /\ filter.cls = "JointFilterBinOp"

RECURSIVE IsConditionTree(_)
\* a tree of & and | over condition-eligible comparisons, each with one or
\* more values, all of which convert
IsConditionTree(t) ==
    IF IsComparison(t)
    THEN ConditionEligible(t) /\ Len(Values(t)) >= 1 /\ Converts(t)
    ELSE /\ IsBoolean(t)
         /\ IsConditionTree(t.lhs)
         /\ IsConditionTree(t.rhs)

\* the condition of a condition-eligible comparison: its per-value terms
\* joined by " | " in parentheses for == and !=, the term of its first
\* value for an ordering
LeafCondition(t) ==
    IF t.op \in EqOps
    THEN "(" \o Join(" | ", [i \in 1..Len(Values(t)) |-> ValueTerm(t, i)]) \o ")"
    ELSE ValueTerm(t, 1)

RECURSIVE Infix(_)
\* the fully parenthesised infix form of a tree over its leaf conditions
Infix(t) ==
    IF IsComparison(t)
    THEN LeafCondition(t)
    ELSE "(" \o Infix(t.lhs) \o " " \o t.op \o " " \o Infix(t.rhs) \o ")"

\* C17: a boolean node whose operands both prune to condition nodes at role
\* Condition becomes a JointConditionBinOp over the two with the condition
\* (<L.condition> <op> <R.condition>); so the condition of a tree of & and |
\* over condition-eligible comparisons is its fully parenthesised infix
\* form, the leaf conditions left to right.
C17_JointCondition ==
    (calls > 0 /\ status = "returned" /\ IsBoolean(terms))
    => /\ LET left == prune(terms.lhs, "ConditionBinOp", encoding)
              right == prune(terms.rhs, "ConditionBinOp", encoding)
          IN  (HasCondition(left) /\ HasCondition(right))
              => /\ condition.cls = "JointConditionBinOp"
                 /\ condition.op = terms.op
                 /\ condition.lhs = left
                 /\ condition.rhs = right
                 /\ condition.condition =
                       str("(" \o left.condition.val \o " " \o terms.op \o " "
                               \o right.condition.val \o ")")
       /\ IsConditionTree(terms)
            => /\ condition.cls = "JointConditionBinOp"
               /\ condition.condition = str(Infix(terms))
               /\ filter = None

C17_Witness ==
    /\ calls > 0
    /\ status = "returned"
    /\ expr = BinOp("|", BinOp("&", Compare("A", "==", int(1)),
                                    Compare("A", ">=", int(1))),
                         Compare("A", ">=", int(1)))
    /\ condition.cls = "JointConditionBinOp"
    /\ condition.condition = str("((((A == 1)) & (A >= 1)) | (A >= 1))")

\* the filter node child with the predicate of its triple inverted
InvertedNode(child) ==
    [child EXCEPT !.filter =
        tuple(<<child.filter.val[1],
                IF child.op = "==" THEN not_isin ELSE isin,
                child.filter.val[3]>>)]

\* C18: at role Filter, ~child is child.invert() exactly when the pruned
\* child carries a filter triple, and null in every other case; so under an
\* inverted joint filter, whose own triple is never set, the result is null
\* and its filter leaves are lost.
C18_FilterInversion ==
    (terms.cls = "UnaryOp" /\ inverts = 0)
    => LET child == prune(terms.operand, "FilterBinOp", encoding)
           result == prune(terms, "FilterBinOp", encoding)
       IN  ~IsRaise(child)
           => /\ IF child # None /\ child.filter # None
                 THEN result = InvertedNode(child)
                 ELSE result = None
              /\ (child.cls = "JointFilterBinOp") => result = None
              /\ (calls > 0 /\ status = "returned") => filter = result

\* an inverted conjunction of two filters leaves no filter at all
C18_Witness ==
    /\ calls > 0
    /\ status = "returned"
    /\ expr = UnaryOp("~", BinOp("&", Compare("string", "==", int(1)),
                                      Compare("string", "==", int(1))))
    /\ prune(terms.operand, "FilterBinOp", encoding).cls = "JointFilterBinOp"
    /\ filter = None

\* an inverted filter comparison
C18_WitnessInverted ==
    /\ calls > 0
    /\ status = "returned"
    /\ inverts = 0
    /\ expr = UnaryOp("~", Compare("string", "==", int(2)))
    /\ filter.filter = tuple(<<str("string"), not_isin, Index(<<int(2)>>)>>)

\* C19 as stated: when evaluate() fails, the stored condition and filter are
\* what they were before the call: both null on a first call.
C19_FailureDiscardsPartialResult ==
    (calls = 1 /\ status = "raised") => (condition = None /\ filter = None)

RECURSIVE IsConditionNode(_)
\* a ConditionBinOp with a condition string, or a JointConditionBinOp with
\* one over two such nodes
IsConditionNode(n) ==
    /\ n.cls \in {"ConditionBinOp", "JointConditionBinOp"}
    /\ n.condition.cls = "str"
    /\ (n.cls = "JointConditionBinOp")
         => IsConditionNode(n.lhs) /\ IsConditionNode(n.rhs)

RECURSIVE IsFilterNode(_)
\* a FilterBinOp, or a JointFilterBinOp over two such nodes
IsFilterNode(n) ==
    /\ n.cls \in {"FilterBinOp", "JointFilterBinOp"}
    /\ (n.cls = "JointFilterBinOp")
         => IsFilterNode(n.lhs) /\ IsFilterNode(n.rhs)

\* C20: what prune leaves at role Condition is null or a condition node with
\* a condition string, and at role Filter null or a filter node; no UnaryOp
\* and no node of the other role is in it at any depth. This holds of the
\* stored pair and of the Filter prune that a failed evaluate() did not run.
C20_RolePurity ==
    /\ condition = None \/ IsConditionNode(condition)
    /\ filter = None \/ IsFilterNode(filter)
    /\ (calls > 0 /\ status = "raised")
         => LET f == prune(terms, "FilterBinOp", encoding)
            IN  IsRaise(f) \/ f = None \/ IsFilterNode(f)

\* a joint condition over a joint condition, next to a null filter
C20_Witness ==
    /\ calls > 0
    /\ status = "returned"
    /\ condition.cls = "JointConditionBinOp"
    /\ condition.lhs.cls = "JointConditionBinOp"
    /\ filter = None

\* a joint filter over a joint filter, next to a null condition
C20_WitnessFilter ==
    /\ calls > 0
    /\ status = "returned"
    /\ filter.cls = "JointFilterBinOp"
    /\ filter.rhs.cls = "JointFilterBinOp"
    /\ condition = None

\* an inverted tree with a condition and a filter leaf: the Condition prune
\* fails, the Filter prune that evaluate() does not reach is a filter node
C20_WitnessInverted ==
    /\ calls > 0
    /\ status = "raised"
    /\ terms.cls = "UnaryOp"
    /\ IsBoolean(terms.operand)
    /\ prune(terms, "FilterBinOp", encoding).cls = "FilterBinOp"

RECURSIVE Disjunction(_, _)
\* the per-value terms of the first i values of t, in the order of the
\* values, with " | " between them
Disjunction(t, i) ==
    IF i = 1 THEN ValueTerm(t, 1)
    ELSE Disjunction(t, i - 1) \o " | " \o ValueTerm(t, i)

\* C21: an == or != comparison on an in-table field with k values,
\* 2 <= k <= 31, all of which convert, has as its condition one pair of
\* parentheses around the k terms (<lhs> <op> <wire-value_i>) joined by
\* " | " in the order of the values, each once; for != as for ==.
C21_MultiValueCondition ==
    (/\ calls > 0
     /\ IsComparison(terms)
     /\ terms.op \in EqOps
     /\ is_in_table(Field(terms))
     /\ Len(Values(terms)) >= 2
     /\ Len(Values(terms)) <= 31
     /\ Converts(terms))
    => /\ status = "returned"
       /\ HasCondition(condition)
       /\ condition.condition =
             str("(" \o Disjunction(terms, Len(Values(terms))) \o ")")
       /\ (expr = Compare("A", "!=", IntList(3)))
            => condition.condition = str("((A != 1) | (A != 2) | (A != 3))")
       /\ filter = None

C21_Witness ==
    /\ calls > 0
    /\ expr = Compare("A", "!=", IntList(3))
    /\ status = "returned"
    /\ condition.condition = str("((A != 1) | (A != 2) | (A != 3))")

\* the largest number of values that still is a condition
C21_WitnessMost ==
    /\ calls > 0
    /\ expr = Compare("s", "==", IntList(_max_selectors))
    /\ status = "returned"
    /\ HasCondition(condition)

====
